---- MODULE Spec2Model ----
(***************************************************************************)
(* A model of the page archiver of tools/scraper.js: WebScraper.scrape and *)
(* the helpers it drives (FileManager, AssetManager, ScreenshotManager,    *)
(* PageExtractor, AssetNamer, AssetMapper).                                *)
(*                                                                         *)
(* Texts are modelled structurally.  A reference text (an attribute value) *)
(* is a record [form, host, path, query]; an absolute URL is such a record *)
(* with form "abs".  A file name is a record [base, hash, ext].  The md5   *)
(* prefix of AssetNamer is modelled as an ideal hash: the pair of its two  *)
(* inputs, so that two hashes are equal exactly when their inputs are.     *)
(* A markup is a sequence of tokens, one per place where a reference text  *)
(* stands.                                                                 *)
(*                                                                         *)
(* Spec is one scrape against an empty output directory, SpecAssets one    *)
(* scrape in which only asset fetches and saving fail, SpecRerun scrape    *)
(* repeated against the same directory, SpecRewrite saveResults for any    *)
(* markup and mapping, SpecFetch the download loop with each fetch taken   *)
(* in steps, SpecOrder the download loop next to a reordered run of it,    *)
(* SpecExtract scrapePage for any rendered document, SpecEquiv one scrape  *)
(* followed by a call of web_scraper of cli.js on the same input, SpecExec *)
(* a call of execute_command (tools/executeCommand.js and its -back        *)
(* variant) and SpecSession calls of the session terminal.                 *)
(***************************************************************************)
EXTENDS Integers, Sequences, FiniteSets, TLC

\* ------------------------------------------------------------------ bounds
MaxRefs  == 2      \* elements of the rendered document that carry a reference
MaxClock == 2      \* largest value of Date.now() (milliseconds since start)
MaxRuns  == 2      \* invocations of scrape against the same output directory
MaxElapsed == 3    \* time followed after a call of execute_command, in units
MaxDepth == 2      \* depth of the directories below process.cwd()

\* --------------------------------------------------------------- URL texts
Lit(f, h, p, q) == [form |-> f, host |-> h, path |-> p, query |-> q]

Undefined == Lit("undefined", "", "", "")

\* window.location.href of the loaded page
PageUrl == Lit("abs", "a", "/", "")

\* new URL(text, base).href for a text that resolves
ResolveUrl(text, base) ==
    IF text.form = "abs" THEN text
    ELSE Lit("abs", base.host, text.path, text.query)

\* new URL(text, base) throws for a text that is not a URL
Resolves(text) == text.form \in {"abs", "rel", "dot", "data"}

\* path.extname(pathname)
Extname(pathname) ==
    CASE pathname = "/logo.png"  -> ".png"
      [] pathname = "/fonts.css" -> ".css"
      [] pathname = "/app.js"    -> ".js"
      [] OTHER                   -> ""

\* path.basename(pathname, ext)
Basename(pathname, ext) ==
    CASE pathname = "/logo.png"  /\ ext = ".png" -> "logo"
      [] pathname = "/fonts.css" /\ ext = ".css" -> "fonts"
      [] pathname = "/app.js"    /\ ext = ".js"  -> "app"
      [] pathname = "/pic"                       -> "pic"
      [] OTHER                                   -> ""

\* CONFIG.DEFAULT_EXTENSIONS[assetType] || '.bin'
DefaultExtension(assetType) ==
    CASE assetType = "images"      -> ".jpg"
      [] assetType = "stylesheets" -> ".css"
      [] assetType = "scripts"     -> ".js"
      [] assetType = "fonts"       -> ".woff2"
      [] OTHER                     -> ".bin"

\* basename.replace(/[^a-zA-Z0-9.-]/g, '_') on the base names above
Sanitize(basename) == basename

\* md5(pathname + Date.now()).substring(0, 8), as an ideal hash of its input
Md5Prefix(pathname, now) == [p |-> pathname, t |-> now]

\* AssetNamer.generateFilename at clock value now
generateFilename(pathname, assetType, now) ==
    LET ext  == IF Extname(pathname) # "" THEN Extname(pathname)
                ELSE DefaultExtension(assetType)
        b0   == Basename(pathname, ext)
        base == IF b0 # "" THEN b0 ELSE "asset"
    IN  [base |-> Sanitize(base), hash |-> Md5Prefix(pathname, now), ext |-> ext]

\* path.join(CONFIG.DIRECTORIES.ASSETS, assetType, filename)
RelativePath(assetType, filename) == [type |-> assetType, file |-> filename]

\* ------------------------------------------------------ rendered document
\* An element of the rendered document that carries a reference: an <img src>,
\* an element with a computed background-image ("bg"), a <link rel=stylesheet
\* href> ("stylesheet"), a <script src>, or any other <link href> ("link").
El(tg, tx) == [tag |-> tg, text |-> tx]

Elements ==
    { El("img",        Lit("rel",  "",  "/logo.png",  "")),
      El("img",        Lit("dot",  "",  "/logo.png",  "")),
      El("img",        Lit("abs",  "b", "/logo.png",  "")),
      El("bg",         Lit("abs",  "a", "/logo.png",  "")),
      El("stylesheet", Lit("rel",  "",  "/fonts.css", "")),
      El("script",     Lit("rel",  "",  "/app.js",    "")),
      El("img",        Lit("data", "",  "",           "")),
      El("img",        Lit("bad",  "",  "",           "")) }

\* the elements above and, with them, an element whose background-image is
\* authored relative to the document and an <img> with a blob: source
RenderedElements ==
    Elements \cup { El("bg",  Lit("rel",  "", "/logo.png", "")),
                    El("img", Lit("blob", "", "",          "")) }

SeqsUpTo(S, n) == UNION { [1..k -> S] : k \in 0..n }

Documents == SeqsUpTo(Elements, MaxRefs)

\* the selector link[href*="font"]
HrefHasFont(text) == text.path = "/fonts.css"

SrcRef(e)  == [url |-> ResolveUrl(e.text, PageUrl),
               originalSrc |-> e.text, originalHref |-> Undefined]
HrefRef(e) == [url |-> ResolveUrl(e.text, PageUrl),
               originalSrc |-> Undefined, originalHref |-> e.text]

\* getComputedStyle(el).backgroundImage: the url() of the computed value is the
\* authored text made absolute against the document
ComputedUrl(text) == ResolveUrl(text, PageUrl)

BackgroundRef(e) == [url |-> ResolveUrl(ComputedUrl(e.text), PageUrl),
                     originalSrc |-> ComputedUrl(e.text), originalHref |-> Undefined]

IsImg(e)        == e.tag = "img" /\ e.text.form \notin {"data", "blob"}
IsBackground(e) == e.tag = "bg"  /\ e.text.form \notin {"data", "blob"}
IsStylesheet(e) == e.tag = "stylesheet"
IsScript(e)     == e.tag = "script"
IsFontLink(e)   == e.tag \in {"stylesheet", "link"} /\ HrefHasFont(e.text)

\* whether the query named sel selects e
Selects(sel, e) ==
    CASE sel = "img"        -> IsImg(e)
      [] sel = "background" -> IsBackground(e)
      [] sel = "stylesheet" -> IsStylesheet(e)
      [] sel = "script"     -> IsScript(e)
      [] OTHER              -> IsFontLink(e)

\* the references of the elements of doc that the query selects, in document
\* order; a text that does not resolve is dropped
Collect(doc, sel) ==
    LET kept == SelectSeq(doc, LAMBDA e : Selects(sel, e) /\ Resolves(e.text))
    IN  [i \in 1..Len(kept) |->
            CASE sel \in {"img", "script"} -> SrcRef(kept[i])
              [] sel = "background"        -> BackgroundRef(kept[i])
              [] OTHER                     -> HrefRef(kept[i])]

\* PageExtractor.extractAssets
extractAssets(doc) ==
    [ images      |-> Collect(doc, "img") \o Collect(doc, "background"),
      stylesheets |-> Collect(doc, "stylesheet"),
      scripts     |-> Collect(doc, "script"),
      fonts       |-> Collect(doc, "font") ]

NoAssets == [images |-> <<>>, stylesheets |-> <<>>, scripts |-> <<>>, fonts |-> <<>>]

\* ------------------------------------------------------------- the markup
\* The markup is a sequence of tokens, one per place where a reference text
\* stands: in an attribute (pos is the attribute's name), in a CSS url()
\* function (pos "url") or in text content (pos "text").  quote is the
\* delimiter around the text ("dq", "sq" or "none"), text is the text as it is
\* written in the markup; once a rewrite has put a local path there, local is
\* TRUE and path is that path.

\* The serialization of an attribute value by page.content(): "&" is written
\* "&amp;"
EscapeAttr(text) ==
    IF text.query = "?v=1&w=2" THEN [text EXCEPT !.query = "?v=1&amp;w=2"] ELSE text

\* the attribute value a written text stands for
UnescapeAttr(text) ==
    IF text.query = "?v=1&amp;w=2" THEN [text EXCEPT !.query = "?v=1&w=2"] ELSE text

\* page.content(): one token per element, the reference in the position the
\* element gives it (a src attribute, an href attribute or a CSS url()).
Token(e) ==
    [ pos   |-> CASE e.tag \in {"img", "script"}      -> "src"
                  [] e.tag \in {"stylesheet", "link"} -> "href"
                  [] OTHER                            -> "url",
      quote |-> "dq",
      text  |-> IF e.tag = "bg" THEN e.text ELSE EscapeAttr(e.text),
      local |-> FALSE,
      path  |-> RelativePath("", [base |-> "", hash |-> Md5Prefix("", 0), ext |-> ""]) ]

Markup(doc) == [i \in 1..Len(doc) |-> Token(doc[i])]

\* whether the text of the markup at token tok ends with the letters of name
\* followed by "=": the attribute is name, or its name ends in name
EndsWithName(tok, name) ==
    \/ tok.pos = name
    \/ name = "src" /\ tok.pos = "data-src"

\* new RegExp(`src=['"]${escapedUrl}['"]`, 'g') (and the same for href)
\* matches at token tok
AttrMatch(tok, name, originalUrl) ==
    /\ ~tok.local
    /\ EndsWithName(tok, name)
    /\ tok.quote \in {"dq", "sq"}
    /\ tok.text = originalUrl

\* new RegExp(`url\\(['"]?${escapedUrl}['"]?\\)`, 'g') matches at token tok
UrlMatch(tok, originalUrl) ==
    /\ ~tok.local
    /\ tok.pos = "url"
    /\ tok.quote \in {"dq", "sq", "none"}
    /\ tok.text = originalUrl

\* one iteration of the loop of replaceAssetUrls: the three replace calls for
\* one entry of the mapping; every replacement writes the path in double quotes
ReplaceOne(html, originalUrl, localPath) ==
    [ i \in 1..Len(html) |->
        IF \/ AttrMatch(html[i], "src", originalUrl)
           \/ AttrMatch(html[i], "href", originalUrl)
           \/ UrlMatch(html[i], originalUrl)
        THEN [html[i] EXCEPT !.quote = "dq", !.local = TRUE, !.path = localPath]
        ELSE html[i] ]

\* the loop of replaceAssetUrls over the entries in the order keys
RECURSIVE ReplaceAll(_, _, _)
ReplaceAll(html, assetMapping, keys) ==
    IF keys = <<>> THEN html
    ELSE ReplaceAll(ReplaceOne(html, Head(keys), assetMapping[Head(keys)]),
                    assetMapping, Tail(keys))

\* Object.entries(assetMapping): the keys in some order
RECURSIVE Entries(_)
Entries(keys) ==
    IF keys = {} THEN <<>>
    ELSE LET k == CHOOSE k \in keys : TRUE IN <<k>> \o Entries(keys \ {k})

\* replaceAssetUrls as it would be with patterns that match a src attribute
\* whatever its value, writing it back in double quotes
replaceAssetUrls_Requotes(html, assetMapping) ==
    LET out == ReplaceAll(html, assetMapping, Entries(DOMAIN assetMapping))
    IN  [ i \in 1..Len(out) |->
            IF out[i].pos = "src" THEN [out[i] EXCEPT !.quote = "dq"] ELSE out[i] ]

\* AssetMapper.replaceAssetUrls
replaceAssetUrls(html, assetMapping) ==
    ReplaceAll(html, assetMapping, Entries(DOMAIN assetMapping))

\* ------------------------------------------------------- AssetManager
Typed(list, assetType) ==
    [i \in 1..Len(list) |->
        [url |-> list[i].url, originalSrc |-> list[i].originalSrc,
         originalHref |-> list[i].originalHref, type |-> assetType]]

\* flattenAssets as it would be with the fonts list spread first
flattenAssets_FontsFirst(assets) ==
    Typed(assets.fonts, "fonts") \o Typed(assets.images, "images")
      \o Typed(assets.stylesheets, "stylesheets") \o Typed(assets.scripts, "scripts")

\* AssetManager.flattenAssets
flattenAssets(assets) ==
    Typed(assets.images, "images") \o Typed(assets.stylesheets, "stylesheets")
      \o Typed(assets.scripts, "scripts") \o Typed(assets.fonts, "fonts")

\* self.findIndex(a => a.url === url)
FindIndex(self, url) == CHOOSE i \in 1..Len(self) :
    /\ self[i].url = url
    /\ \A j \in 1..(i - 1) : self[j].url # url

KeepFirst(i, self) == i = FindIndex(self, self[i].url)

RECURSIVE FilterFrom(_, _)
FilterFrom(i, self) ==
    IF i > Len(self) THEN <<>>
    ELSE (IF KeepFirst(i, self) THEN <<self[i]>> ELSE <<>>) \o FilterFrom(i + 1, self)

\* removeDuplicates as it would be with a filter that keeps every element
removeDuplicates_KeepsAll(assets) == assets

\* AssetManager.removeDuplicates
removeDuplicates(assets) == FilterFrom(1, assets)

\* the (up to three) keys registered for a downloaded asset
MappingKeys(asset) ==
    {asset.url}
      \cup (IF asset.originalSrc  # Undefined THEN {asset.originalSrc}  ELSE {})
      \cup (IF asset.originalHref # Undefined THEN {asset.originalHref} ELSE {})

\* mapping[k] = relativePath for every k of keys
Register(mapping, keys, relativePath) ==
    [k \in DOMAIN mapping \cup keys |->
        IF k \in keys THEN relativePath ELSE mapping[k]]

\* { ...a, ...b }
Spread(a, b) == [k \in DOMAIN a \cup DOMAIN b |-> IF k \in DOMAIN b THEN b[k] ELSE a[k]]

\* ------------------------------------------------------------------ state
VARIABLES
    dom,           \* the rendered document the site serves
    clock,         \* Date.now()
    fs,            \* the output directory
    run,           \* number of scrape invocations started so far
    params,        \* this.params
    pc,            \* the stage scrape is at
    result,        \* this.result
    startTime,     \* startTime of scrape
    browser,       \* this.browser, this.context, this.page: "null", "open", "closed"
    context,
    page,
    uniqueAssets,  \* locals of AssetManager.downloadAndMapAssets
    idx,
    mapping,
    stats,
    netOps,        \* history: the kinds of network access made by this invocation
    written,       \* history: the kinds of file written by this invocation
    attempts,      \* history: per asset handed to downloadSingleAsset, its outcome
    shots,         \* history: what happened to each viewport's capture
    robots,        \* history: what loading and asking the robots policy gave
    wroteBefore,   \* history: URLs whose asset file an earlier invocation wrote
    outcomes,      \* history: what the environment did to each stage's operation
    served,        \* what the server of each asset URL answers to a fetch
    alt,           \* a second pass over uniqueAssets, in an order of its own
    transfer,      \* the fetch in flight: its phase, its abort timer, its server
    cli,           \* the call of web_scraper (cli.js) on the same input
    proc,          \* one call of execute_command: its child, its timer, its promise
    session        \* the session terminal: sessionDirectory and the last call

vars == << dom, clock, fs, run, params, pc, result, startTime, browser, context,
           page, uniqueAssets, idx, mapping, stats, netOps, written, attempts,
           shots, robots, wroteBefore, outcomes, served, alt, transfer, cli, proc,
           session >>

Locals == << uniqueAssets, idx, mapping, stats >>
History == << written, attempts, shots, robots, wroteBefore >>
Browser == << browser, context, page >>
Tools == << cli, proc, session >>
Aux == << served, alt, transfer, Tools >>

NullFile == [base |-> "", hash |-> Md5Prefix("", 0), ext |-> ""]
NullPath == RelativePath("", NullFile)

\* `${hostname}-${viewport}-${timestamp}.png` under the screenshots directory
ShotPath(hostname, viewport, timestamp) ==
    [host |-> hostname, viewport |-> viewport, t |-> timestamp]
NullShot == ShotPath("", "null", 0)

NullHtml == << [pos |-> "null", quote |-> "none", text |-> Undefined,
               local |-> FALSE, path |-> NullPath] >>

EmptyMapping == [k \in {} |-> NullPath]

InitStatistics ==
    [totalAssets |-> 0, downloadedAssets |-> 0, failedAssets |-> 0, processingTime |-> 0]

\* this.result as the constructor leaves it
InitResult ==
    [ success         |-> FALSE,
      accessible      |-> FALSE,
      scrapingAllowed |-> FALSE,
      scrapedData     |-> [html |-> NullHtml, assets |-> NoAssets],
      screenshots     |-> [desktop |-> NullShot, mobile |-> NullShot],
      assetMapping    |-> EmptyMapping,
      statistics      |-> InitStatistics,
      message         |-> "" ]

Schemes == {"http", "ftp", "invalid"}

Params == [scheme : Schemes, respectRobots : BOOLEAN,
           downloadAssets : BOOLEAN, takeScreenshots : BOOLEAN]

NoParams == [scheme |-> "http", respectRobots |-> FALSE,
             downloadAssets |-> FALSE, takeScreenshots |-> FALSE]

EmptyDir ==
    [ dirs     |-> FALSE,
      assets   |-> {},
      shots    |-> {},
      index    |-> [exists |-> FALSE, content |-> NullHtml],
      metadata |-> [exists |-> FALSE, assetMapping |-> EmptyMapping,
                    statistics |-> InitStatistics] ]

NoShots == [desktop |-> "none", mobile |-> "none"]

NoOutcomes == [mkdir |-> "none", launch |-> "none", nav |-> "none",
               save |-> "none", cleanup |-> "none"]

NoServed == [u \in {} |-> "ok"]

NoAlt == [fetching |-> {}, done |-> {}, files |-> {}, mapping |-> EmptyMapping,
          stats |-> [total |-> 0, downloaded |-> 0, failed |-> 0]]

NoTransfer == [phase |-> "idle", timer |-> "none", server |-> "none", path |-> NullPath]

\* what a caller sees of a result of web_scraper (cli.js): the flags, the
\* asset statistics, the keys of assetMapping and each screenshot slot
\* ("undefined" where the object has no such property)
CliResult(flag, downloadStats, keys, screenshots) ==
    [ success         |-> flag,
      accessible      |-> flag,
      scrapingAllowed |-> flag,
      statistics      |-> [totalAssets      |-> downloadStats.total,
                           downloadedAssets |-> downloadStats.downloaded,
                           failedAssets     |-> downloadStats.failed],
      assetMapping    |-> keys,
      screenshots     |-> screenshots ]

NoDownloadStats == [total |-> 0, downloaded |-> 0, failed |-> 0]

\* the result object execute of cli.js starts with
CliInitialResult ==
    CliResult(FALSE, NoDownloadStats, {}, [desktop |-> "null", mobile |-> "null"])

\* the object the catch block of execute of cli.js returns
CliErrorResult ==
    [ success         |-> FALSE,
      accessible      |-> FALSE,
      scrapingAllowed |-> FALSE,
      statistics      |-> [totalAssets |-> 0, downloadedAssets |-> 0, failedAssets |-> 0],
      assetMapping    |-> {},
      screenshots     |-> [desktop |-> "undefined", mobile |-> "undefined"] ]

NoCli == [phase |-> "idle", result |-> CliInitialResult]

\* JavaScript's null and undefined where a number can stand
Null == -1
Undef == -9

NoProc == [phase |-> "idle", impl |-> "none", timeout |-> Undef, delay |-> 0,
           elapsed |-> 0, timer |-> "none", child |-> "none", signal |-> "none",
           settledBy |-> "none", result |-> [success |-> FALSE, exitCode |-> Undef]]

\* process.cwd(), as a path of names below it
Cwd == <<>>

NoSession == [sessionDirectory |-> Cwd, disk |-> {Cwd}, before |-> Cwd,
              last |-> "none", executed |-> FALSE, success |-> FALSE]

Init ==
    /\ dom \in Documents
    /\ clock = 0
    /\ fs = EmptyDir
    /\ run = 0
    /\ params = NoParams
    /\ pc = "idle"
    /\ result = InitResult
    /\ startTime = 0
    /\ browser = "null" /\ context = "null" /\ page = "null"
    /\ uniqueAssets = <<>> /\ idx = 1 /\ mapping = EmptyMapping
    /\ stats = [total |-> 0, downloaded |-> 0, failed |-> 0]
    /\ netOps = {} /\ written = {} /\ attempts = <<>> /\ shots = NoShots
    /\ robots = "none"
    /\ wroteBefore = {}
    /\ outcomes = NoOutcomes
    /\ served = NoServed
    /\ alt = NoAlt
    /\ transfer = NoTransfer
    /\ cli = NoCli /\ proc = NoProc /\ session = NoSession

WroteNow == { attempts[i].url : i \in { j \in 1..Len(attempts) : attempts[j].out = "ok" } }

\* new WebScraper(params), and scrape up to its first await
StartScrape(p, dt) ==
    /\ pc \in {"idle", "done"}
    /\ run < MaxRuns
    /\ clock + dt <= MaxClock
    /\ run' = run + 1
    /\ clock' = clock + dt
    /\ startTime' = clock + dt
    /\ params' = p
    /\ result' = InitResult
    /\ pc' = "validate"
    /\ browser' = "null" /\ context' = "null" /\ page' = "null"
    /\ uniqueAssets' = <<>> /\ idx' = 1 /\ mapping' = EmptyMapping
    /\ stats' = [total |-> 0, downloaded |-> 0, failed |-> 0]
    /\ netOps' = {} /\ written' = {} /\ attempts' = <<>> /\ shots' = NoShots
    /\ robots' = "none"
    /\ wroteBefore' = wroteBefore \cup WroteNow
    /\ outcomes' = NoOutcomes
    /\ UNCHANGED << Aux, dom, fs >>

\* the catch block of scrape as it would be without the assignment of message
Catch_NoMessage(errorMessage) ==
    /\ result' = [result EXCEPT !.statistics.processingTime = clock - startTime]
    /\ pc' = "cleanup"

\* the catch block of scrape
Catch(errorMessage) ==
    /\ result' = [result EXCEPT !.message = errorMessage,
                                !.statistics.processingTime = clock - startTime]
    /\ pc' = "cleanup"

\* validateUrl as it would be without the protocol test
validateUrl_AnyScheme ==
    /\ pc = "validate"
    /\ IF params.scheme = "invalid" THEN Catch("Invalid URL")
       ELSE pc' = "mkdir" /\ UNCHANGED result
    /\ UNCHANGED << Aux, outcomes, dom, clock, fs, run, params, startTime, Browser, Locals,
                    netOps, History >>

\* WebScraper.validateUrl
validateUrl ==
    /\ pc = "validate"
    /\ IF params.scheme = "invalid" THEN Catch("Invalid URL")
       ELSE IF params.scheme \notin {"http", "https"}
            THEN Catch("Only HTTP and HTTPS URLs are supported")
            ELSE pc' = "mkdir" /\ UNCHANGED result
    /\ UNCHANGED << Aux, outcomes, dom, clock, fs, run, params, startTime, Browser, Locals,
                    netOps, History >>

\* FileManager.createDirectoryStructure
createDirectoryStructure(out) ==
    /\ pc = "mkdir"
    /\ IF out = "ok"
       THEN /\ fs' = [fs EXCEPT !.dirs = TRUE]
            /\ pc' = "robots"
            /\ UNCHANGED result
       ELSE /\ Catch("mkdir failed")
            /\ UNCHANGED fs
    /\ outcomes' = [outcomes EXCEPT !.mkdir = out]
    /\ UNCHANGED << Aux, dom, clock, run, params, startTime, Browser, Locals,
                    netOps, History >>

RobotsOutcomes == {"allowed", "disallowed", "load_error", "load_error_blocked"}

\* the message of the error robotsFile.load rejects with
LoadErrorMessage(out) ==
    IF out = "load_error_blocked" THEN "Request blocked - received 403 status code."
    ELSE "fetch failed"

\* error.message.includes('blocked')
IncludesBlocked(errorMessage) ==
    errorMessage \in {"Access blocked by robots.txt",
                      "Request blocked - received 403 status code."}

\* checkRobotsTxt as it would be with a catch that rethrows nothing
checkRobotsTxt_NeverRethrows(out) ==
    /\ pc = "robots"
    /\ IF ~params.respectRobots
       THEN UNCHANGED << netOps, robots >>
       ELSE netOps' = netOps \cup {"robots"} /\ robots' = out
    /\ pc' = "launch"
    /\ UNCHANGED << Aux, outcomes, dom, clock, fs, run, params, result, startTime, Browser, Locals,
                    written, attempts, shots, wroteBefore >>

\* WebScraper.checkRobotsTxt
checkRobotsTxt(out) ==
    /\ pc = "robots"
    /\ IF ~params.respectRobots
       THEN /\ pc' = "launch"
            /\ UNCHANGED << result, netOps, robots >>
       ELSE /\ netOps' = netOps \cup {"robots"}
            /\ robots' = out
            /\ LET thrown == CASE out = "allowed"    -> ""
                               [] out = "disallowed" -> "Access blocked by robots.txt"
                               [] OTHER              -> LoadErrorMessage(out)
               IN  IF thrown # "" /\ IncludesBlocked(thrown)
                   THEN Catch(thrown)
                   ELSE pc' = "launch" /\ UNCHANGED result
    /\ UNCHANGED << Aux, outcomes, dom, clock, fs, run, params, startTime, Browser, Locals,
                    written, attempts, shots, wroteBefore >>

LaunchOutcomes == {"ok", "launch_throw", "context_throw", "page_throw"}

\* WebScraper.launchBrowser
launchBrowser(out) ==
    /\ pc = "launch"
    /\ netOps' = netOps \cup {"launch"}
    /\ browser' = IF out = "launch_throw" THEN "null" ELSE "open"
    /\ context' = IF out \in {"launch_throw", "context_throw"} THEN "null" ELSE "open"
    /\ page'    = IF out = "ok" THEN "open" ELSE "null"
    /\ IF out = "ok" THEN pc' = "navigate" /\ UNCHANGED result
       ELSE Catch("browser launch failed")
    /\ outcomes' = [outcomes EXCEPT !.launch = out]
    /\ UNCHANGED << Aux, dom, clock, fs, run, params, startTime, Locals, History >>

NavOutcomes == {"ok", "non2xx", "no_response", "timeout"}

\* scrape as it would be if processAssets were called whatever downloadAssets is
AfterScrapePage_AlwaysAssets == "assets"

\* scrape as it would be with no asset stage between extraction and saving
AfterScrapePage_SkipsAssets ==
    IF params.takeScreenshots THEN "screenshots" ELSE "save"

AfterScrapePage ==
    IF params.downloadAssets THEN "assets"
    ELSE IF params.takeScreenshots THEN "screenshots" ELSE "save"

\* scrapePage as it would be if it set accessible once the navigation has
\* gone through
scrapePage_SetsAccessible(out) ==
    /\ pc = "navigate"
    /\ netOps' = netOps \cup {"goto"}
    /\ IF out = "ok"
       THEN /\ result' = [result EXCEPT
                            !.accessible = TRUE,
                            !.scrapedData = [html |-> Markup(dom),
                                             assets |-> extractAssets(dom)]]
            /\ pc' = AfterScrapePage
       ELSE Catch(CASE out = "non2xx"      -> "HTTP 404: Not Found"
                    [] out = "no_response" -> "HTTP unknown: Navigation failed"
                    [] OTHER               -> "Timeout exceeded")
    /\ outcomes' = [outcomes EXCEPT !.nav = out]
    /\ UNCHANGED << Aux, dom, clock, fs, run, params, startTime, Browser, Locals,
                    History >>

\* scrapePage as it would be without the test of the response status
scrapePage_IgnoresStatus(out) ==
    /\ pc = "navigate"
    /\ netOps' = netOps \cup {"goto"}
    /\ IF out \in {"ok", "non2xx"}
       THEN /\ result' = [result EXCEPT
                            !.scrapedData = [html |-> Markup(dom),
                                             assets |-> extractAssets(dom)]]
            /\ pc' = AfterScrapePage
       ELSE Catch(CASE out = "no_response" -> "HTTP unknown: Navigation failed"
                    [] OTHER               -> "Timeout exceeded")
    /\ outcomes' = [outcomes EXCEPT !.nav = out]
    /\ UNCHANGED << Aux, dom, clock, fs, run, params, startTime, Browser, Locals,
                    History >>

\* WebScraper.scrapePage
scrapePage(out) ==
    /\ pc = "navigate"
    /\ netOps' = netOps \cup {"goto"}
    /\ IF out = "ok"
       THEN /\ result' = [result EXCEPT
                            !.scrapedData = [html |-> Markup(dom),
                                             assets |-> extractAssets(dom)]]
            /\ pc' = AfterScrapePage
       ELSE Catch(CASE out = "non2xx"      -> "HTTP 404: Not Found"
                    [] out = "no_response" -> "HTTP unknown: Navigation failed"
                    [] OTHER               -> "Timeout exceeded")
    /\ outcomes' = [outcomes EXCEPT !.nav = out]
    /\ UNCHANGED << Aux, dom, clock, fs, run, params, startTime, Browser, Locals,
                    History >>


AfterProcessAssets == IF params.takeScreenshots THEN "screenshots" ELSE "save"

\* WebScraper.processAssets and AssetManager.downloadAndMapAssets, up to the loop
processAssetsBegin ==
    /\ pc = "assets"
    /\ uniqueAssets' = removeDuplicates(flattenAssets(result.scrapedData.assets))
    /\ stats' = [total |-> Len(uniqueAssets'), downloaded |-> 0, failed |-> 0]
    /\ mapping' = EmptyMapping
    /\ idx' = 1
    /\ pc' = "download"
    /\ UNCHANGED << Aux, outcomes, dom, clock, fs, run, params, result, startTime, Browser,
                    netOps, History >>

FetchOutcomes == {"ok", "http_error", "timeout"}

\* the loop body as it would be without its try/catch: a failed fetch reaches
\* the catch block of scrape
downloadSingleAsset_Propagates(out, dt) ==
    /\ pc = "download"
    /\ idx <= Len(uniqueAssets)
    /\ clock + dt <= MaxClock
    /\ clock' = clock + dt
    /\ LET asset        == uniqueAssets[idx]
           filename     == generateFilename(asset.url.path, asset.type, clock')
           relativePath == RelativePath(asset.type, filename)
       IN  IF relativePath \in fs.assets
           THEN /\ mapping' = Register(mapping, MappingKeys(asset), relativePath)
                /\ stats' = [stats EXCEPT !.downloaded = @ + 1]
                /\ attempts' = Append(attempts,
                     [url |-> asset.url, path |-> relativePath, out |-> "present"])
                /\ UNCHANGED << fs, netOps, written, pc, result >>
           ELSE /\ netOps' = netOps \cup {"fetch"}
                /\ attempts' = Append(attempts,
                     [url |-> asset.url, path |-> relativePath,
                      out |-> IF out = "ok" THEN "ok" ELSE "failed"])
                /\ IF out = "ok"
                   THEN /\ fs' = [fs EXCEPT !.assets = @ \cup {relativePath}]
                        /\ written' = written \cup {"asset"}
                        /\ mapping' = Register(mapping, MappingKeys(asset), relativePath)
                        /\ stats' = [stats EXCEPT !.downloaded = @ + 1]
                        /\ UNCHANGED << pc, result >>
                   ELSE /\ Catch("fetch failed")
                        /\ UNCHANGED << fs, written, mapping, stats >>
    /\ idx' = idx + 1
    /\ UNCHANGED << Aux, outcomes, dom, run, params, startTime, Browser, uniqueAssets,
                    shots, robots, wroteBefore >>

\* the loop body as it would be without the existence check: every asset is
\* fetched
downloadSingleAsset_NoSkip(out, dt) ==
    /\ pc = "download"
    /\ idx <= Len(uniqueAssets)
    /\ clock + dt <= MaxClock
    /\ clock' = clock + dt
    /\ LET asset        == uniqueAssets[idx]
           filename     == generateFilename(asset.url.path, asset.type, clock')
           relativePath == RelativePath(asset.type, filename)
       IN  /\ netOps' = netOps \cup {"fetch"}
           /\ attempts' = Append(attempts,
                [url |-> asset.url, path |-> relativePath,
                 out |-> IF out = "ok" THEN "ok" ELSE "failed"])
           /\ IF out = "ok"
              THEN /\ fs' = [fs EXCEPT !.assets = @ \cup {relativePath}]
                   /\ written' = written \cup {"asset"}
                   /\ mapping' = Register(mapping, MappingKeys(asset), relativePath)
                   /\ stats' = [stats EXCEPT !.downloaded = @ + 1]
              ELSE /\ stats' = [stats EXCEPT !.failed = @ + 1]
                   /\ UNCHANGED << fs, written, mapping >>
    /\ idx' = idx + 1
    /\ UNCHANGED << Aux, outcomes, dom, run, params, pc, result, startTime, Browser,
                    uniqueAssets, shots, robots, wroteBefore >>

\* the loop body as it would be with a catch block that counts nothing
downloadSingleAsset_Uncounted(out, dt) ==
    /\ pc = "download"
    /\ idx <= Len(uniqueAssets)
    /\ clock + dt <= MaxClock
    /\ clock' = clock + dt
    /\ LET asset        == uniqueAssets[idx]
           filename     == generateFilename(asset.url.path, asset.type, clock')
           relativePath == RelativePath(asset.type, filename)
       IN  IF relativePath \in fs.assets
           THEN \* fileExists(localPath): success, size 0
                /\ mapping' = Register(mapping, MappingKeys(asset), relativePath)
                /\ stats' = [stats EXCEPT !.downloaded = @ + 1]
                /\ attempts' = Append(attempts,
                     [url |-> asset.url, path |-> relativePath, out |-> "present"])
                /\ UNCHANGED << fs, netOps, written >>
           ELSE /\ netOps' = netOps \cup {"fetch"}
                /\ attempts' = Append(attempts,
                     [url |-> asset.url, path |-> relativePath,
                      out |-> IF out = "ok" THEN "ok" ELSE "failed"])
                /\ IF out = "ok"
                   THEN /\ fs' = [fs EXCEPT !.assets = @ \cup {relativePath}]
                        /\ written' = written \cup {"asset"}
                        /\ mapping' = Register(mapping, MappingKeys(asset), relativePath)
                        /\ stats' = [stats EXCEPT !.downloaded = @ + 1]
                   ELSE UNCHANGED << fs, written, mapping, stats >>
    /\ idx' = idx + 1
    /\ UNCHANGED << Aux, outcomes, dom, run, params, pc, result, startTime, Browser, uniqueAssets,
                    shots, robots, wroteBefore >>

\* the loop body as it would be if the mapping entries were made before the
\* outcome of the download is known
downloadSingleAsset_MapsFailed(out, dt) ==
    /\ pc = "download"
    /\ idx <= Len(uniqueAssets)
    /\ clock + dt <= MaxClock
    /\ clock' = clock + dt
    /\ LET asset        == uniqueAssets[idx]
           filename     == generateFilename(asset.url.path, asset.type, clock')
           relativePath == RelativePath(asset.type, filename)
       IN  IF relativePath \in fs.assets
           THEN \* fileExists(localPath): success, size 0
                /\ mapping' = Register(mapping, MappingKeys(asset), relativePath)
                /\ stats' = [stats EXCEPT !.downloaded = @ + 1]
                /\ attempts' = Append(attempts,
                     [url |-> asset.url, path |-> relativePath, out |-> "present"])
                /\ UNCHANGED << fs, netOps, written >>
           ELSE /\ netOps' = netOps \cup {"fetch"}
                /\ attempts' = Append(attempts,
                     [url |-> asset.url, path |-> relativePath,
                      out |-> IF out = "ok" THEN "ok" ELSE "failed"])
                /\ IF out = "ok"
                   THEN /\ fs' = [fs EXCEPT !.assets = @ \cup {relativePath}]
                        /\ written' = written \cup {"asset"}
                        /\ mapping' = Register(mapping, MappingKeys(asset), relativePath)
                        /\ stats' = [stats EXCEPT !.downloaded = @ + 1]
                   ELSE /\ stats' = [stats EXCEPT !.failed = @ + 1]
                        /\ mapping' = Register(mapping, MappingKeys(asset), relativePath)
                        /\ UNCHANGED << fs, written >>
    /\ idx' = idx + 1
    /\ UNCHANGED << Aux, outcomes, dom, run, params, pc, result, startTime, Browser, uniqueAssets,
                    shots, robots, wroteBefore >>

\* one iteration of the loop of downloadAndMapAssets: downloadSingleAsset on
\* uniqueAssets[idx], dt milliseconds after the previous clock reading
downloadSingleAsset(out, dt) ==
    /\ pc = "download"
    /\ idx <= Len(uniqueAssets)
    /\ clock + dt <= MaxClock
    /\ clock' = clock + dt
    /\ LET asset        == uniqueAssets[idx]
           filename     == generateFilename(asset.url.path, asset.type, clock')
           relativePath == RelativePath(asset.type, filename)
       IN  IF relativePath \in fs.assets
           THEN \* fileExists(localPath): success, size 0
                /\ mapping' = Register(mapping, MappingKeys(asset), relativePath)
                /\ stats' = [stats EXCEPT !.downloaded = @ + 1]
                /\ attempts' = Append(attempts,
                     [url |-> asset.url, path |-> relativePath, out |-> "present"])
                /\ UNCHANGED << fs, netOps, written >>
           ELSE /\ netOps' = netOps \cup {"fetch"}
                /\ attempts' = Append(attempts,
                     [url |-> asset.url, path |-> relativePath,
                      out |-> IF out = "ok" THEN "ok" ELSE "failed"])
                /\ IF out = "ok"
                   THEN /\ fs' = [fs EXCEPT !.assets = @ \cup {relativePath}]
                        /\ written' = written \cup {"asset"}
                        /\ mapping' = Register(mapping, MappingKeys(asset), relativePath)
                        /\ stats' = [stats EXCEPT !.downloaded = @ + 1]
                   ELSE /\ stats' = [stats EXCEPT !.failed = @ + 1]
                        /\ UNCHANGED << fs, written, mapping >>
    /\ idx' = idx + 1
    /\ UNCHANGED << Aux, outcomes, dom, run, params, pc, result, startTime, Browser, uniqueAssets,
                    shots, robots, wroteBefore >>

\* the return of downloadAndMapAssets and the rest of processAssets
processAssetsEnd ==
    /\ pc = "download"
    /\ idx > Len(uniqueAssets)
    /\ result' = [result EXCEPT !.assetMapping = mapping,
                                !.statistics = Spread(result.statistics, stats)]
    /\ pc' = AfterProcessAssets
    /\ UNCHANGED << Aux, outcomes, dom, clock, fs, run, params, startTime, Browser, Locals,
                    netOps, History >>

CaptureOutcomes == {"ok", "throw"}

\* captureScreenshots as it would be without its try/catch
captureScreenshots_Propagates(desktop, mobile) ==
    /\ pc = "screenshots"
    /\ LET timestamp   == clock
           desktopPath == ShotPath(PageUrl.host, "desktop", timestamp)
           mobilePath  == ShotPath(PageUrl.host, "mobile", timestamp)
       IN  IF desktop = "throw"
           THEN /\ shots' = [desktop |-> "throw", mobile |-> "none"]
                /\ Catch("Screenshot error")
                /\ UNCHANGED << fs, written >>
           ELSE IF mobile = "throw"
           THEN /\ shots' = [desktop |-> "ok", mobile |-> "throw"]
                /\ Catch("Screenshot error")
                /\ fs' = [fs EXCEPT !.shots = @ \cup {desktopPath}]
                /\ written' = written \cup {"screenshot"}
           ELSE /\ shots' = [desktop |-> "ok", mobile |-> "ok"]
                /\ result' = [result EXCEPT
                     !.screenshots = [desktop |-> desktopPath, mobile |-> mobilePath]]
                /\ fs' = [fs EXCEPT !.shots = @ \cup {desktopPath, mobilePath}]
                /\ written' = written \cup {"screenshot"}
                /\ pc' = "save"
    /\ UNCHANGED << Aux, outcomes, dom, clock, run, params, startTime, Browser, Locals, netOps,
                    attempts, robots, wroteBefore >>

\* WebScraper.captureScreenshots and ScreenshotManager.captureScreenshots:
\* desktop and mobile are what the page does to each viewport's capture
captureScreenshots(desktop, mobile) ==
    /\ pc = "screenshots"
    /\ LET timestamp   == clock
           desktopPath == ShotPath(PageUrl.host, "desktop", timestamp)
           mobilePath  == ShotPath(PageUrl.host, "mobile", timestamp)
       IN  IF desktop = "throw"
           THEN /\ shots' = [desktop |-> "throw", mobile |-> "none"]
                /\ result' = [result EXCEPT
                     !.screenshots = [desktop |-> NullShot, mobile |-> NullShot]]
                /\ UNCHANGED << fs, written >>
           ELSE IF mobile = "throw"
           THEN /\ shots' = [desktop |-> "ok", mobile |-> "throw"]
                /\ result' = [result EXCEPT
                     !.screenshots = [desktop |-> desktopPath, mobile |-> NullShot]]
                /\ fs' = [fs EXCEPT !.shots = @ \cup {desktopPath}]
                /\ written' = written \cup {"screenshot"}
           ELSE /\ shots' = [desktop |-> "ok", mobile |-> "ok"]
                /\ result' = [result EXCEPT
                     !.screenshots = [desktop |-> desktopPath, mobile |-> mobilePath]]
                /\ fs' = [fs EXCEPT !.shots = @ \cup {desktopPath, mobilePath}]
                /\ written' = written \cup {"screenshot"}
    /\ pc' = "save"
    /\ UNCHANGED << Aux, outcomes, dom, clock, run, params, startTime, Browser, Locals, netOps,
                    attempts, robots, wroteBefore >>

SaveOutcomes == {"ok", "index_throw", "metadata_throw"}

\* WebScraper.saveResults and the lines of scrape after it
saveResults(out) ==
    /\ pc = "save"
    /\ LET modifiedHtml == replaceAssetUrls(result.scrapedData.html, result.assetMapping)
           indexFile    == [exists |-> TRUE, content |-> modifiedHtml]
           metadataFile == [exists |-> TRUE, assetMapping |-> result.assetMapping,
                            statistics |-> result.statistics]
       IN  CASE out = "index_throw" ->
                  /\ Catch("writeFile index.html failed")
                  /\ UNCHANGED << fs, written >>
             [] out = "metadata_throw" ->
                  /\ Catch("writeFile metadata.json failed")
                  /\ fs' = [fs EXCEPT !.index = indexFile]
                  /\ written' = written \cup {"index.html"}
             [] OTHER ->
                  /\ fs' = [fs EXCEPT !.index = indexFile, !.metadata = metadataFile]
                  /\ written' = written \cup {"index.html", "metadata.json"}
                  /\ result' = [result EXCEPT
                       !.scrapedData.html = modifiedHtml,
                       !.success = TRUE,
                       !.accessible = TRUE,
                       !.scrapingAllowed = TRUE,
                       !.statistics.processingTime = clock - startTime,
                       !.message = "Successfully scraped page"]
                  /\ pc' = "cleanup"
    /\ outcomes' = [outcomes EXCEPT !.save = out]
    /\ UNCHANGED << Aux, dom, clock, run, params, startTime, Browser, Locals, netOps,
                    attempts, shots, robots, wroteBefore >>

CleanupOutcomes == {"ok", "page_throw", "context_throw", "browser_throw"}

\* WebScraper.cleanup, and the return of scrape
cleanup(out) ==
    /\ pc = "cleanup"
    /\ out = "page_throw"    => page = "open"
    /\ out = "context_throw" => context = "open"
    /\ out = "browser_throw" => browser = "open"
    /\ page'    = IF page = "open" /\ out # "page_throw" THEN "closed" ELSE page
    /\ context' = IF context = "open" /\ out \notin {"page_throw", "context_throw"}
                  THEN "closed" ELSE context
    /\ browser' = IF browser = "open" /\ out = "ok" THEN "closed" ELSE browser
    /\ pc' = "done"
    /\ outcomes' = [outcomes EXCEPT !.cleanup = out]
    /\ UNCHANGED << Aux, dom, clock, fs, run, params, result, startTime, Locals,
                    netOps, History >>

Next ==
    \/ \E p \in Params : pc = "idle" /\ StartScrape(p, 0)
    \/ validateUrl
    \/ \E out \in {"ok", "throw"} : createDirectoryStructure(out)
    \/ \E out \in RobotsOutcomes : checkRobotsTxt(out)
    \/ \E out \in LaunchOutcomes : launchBrowser(out)
    \/ \E out \in NavOutcomes : scrapePage(out)
    \/ processAssetsBegin
    \/ \E out \in FetchOutcomes, dt \in 0..1 : downloadSingleAsset(out, dt)
    \/ processAssetsEnd
    \/ \E desktop \in CaptureOutcomes, mobile \in CaptureOutcomes :
           captureScreenshots(desktop, mobile)
    \/ \E out \in SaveOutcomes : saveResults(out)
    \/ \E out \in CleanupOutcomes : cleanup(out)

Spec == Init /\ [][Next]_vars

\* ------------------------------------------------------ the download loop
\* one scrape of an http URL in which the stages around the download loop go
\* through: whatever the flags, the document, the outcome of each fetch, the
\* time each takes and the outcome of saving
NextAssets ==
    \/ \E p \in { q \in Params : q.scheme = "http" } : pc = "idle" /\ StartScrape(p, 0)
    \/ validateUrl
    \/ createDirectoryStructure("ok")
    \/ checkRobotsTxt("allowed")
    \/ launchBrowser("ok")
    \/ scrapePage("ok")
    \/ processAssetsBegin
    \/ \E out \in FetchOutcomes, dt \in 0..1 : downloadSingleAsset(out, dt)
    \/ processAssetsEnd
    \/ captureScreenshots("ok", "ok")
    \/ \E out \in SaveOutcomes : saveResults(out)
    \/ cleanup("ok")

SpecAssets == Init /\ [][NextAssets]_vars

\* ---------------------------------------------------------------- re-runs
\* scrape invoked again and again with the same parameters against the same
\* URL and output directory, in an environment where only asset fetches fail
RerunParams == [scheme |-> "http", respectRobots |-> FALSE,
                downloadAssets |-> TRUE, takeScreenshots |-> FALSE]

NextRerun ==
    \/ \E dt \in 0..1 : StartScrape(RerunParams, dt)
    \/ validateUrl
    \/ createDirectoryStructure("ok")
    \/ checkRobotsTxt("allowed")
    \/ launchBrowser("ok")
    \/ scrapePage("ok")
    \/ processAssetsBegin
    \/ \E out \in FetchOutcomes, dt \in 0..1 : downloadSingleAsset(out, dt)
    \/ processAssetsEnd
    \/ saveResults("ok")
    \/ cleanup("ok")

SpecRerun == Init /\ [][NextRerun]_vars

\* --------------------------------------------------------------- rewriting
\* saveResults entered with any captured markup and any completed mapping, to
\* check AssetMapper.replaceAssetUrls on its own
MaxTokens == 2     \* tokens of a markup handed to replaceAssetUrls

\* texts as written in a markup
WrittenTexts ==
    { Lit("rel", "", "/logo.png", ""),
      Lit("abs", "a", "/fonts.css", ""),
      EscapeAttr(Lit("rel", "", "/app.js", "?v=1&w=2")) }

\* texts as the extractor reads them (getAttribute, the resolved URL)
RewriteKeys == { UnescapeAttr(t) : t \in WrittenTexts }

TokenShapes ==
    ({"src", "href", "data-src"} \X {"dq", "sq"})
      \cup ({"url"} \X {"dq", "sq", "none"})
      \cup {<<"text", "none">>}

Tokens ==
    { [pos |-> sh[1], quote |-> sh[2], text |-> t, local |-> FALSE, path |-> NullPath] :
          sh \in TokenShapes, t \in WrittenTexts }

Markups == SeqsUpTo(Tokens, MaxTokens)

\* the relative path the downloader registers for key k
LocalFor(k) == RelativePath("images", generateFilename(k.path, "images", 0))

Mappings == { [k \in K |-> LocalFor(k)] : K \in SUBSET RewriteKeys }

InitRewrite ==
    /\ dom = <<>>
    /\ clock = 0
    /\ fs = [EmptyDir EXCEPT !.dirs = TRUE]
    /\ run = 1
    /\ params = RerunParams
    /\ pc = "save"
    /\ \E html \in Markups, assetMapping \in Mappings :
           result = [InitResult EXCEPT !.scrapedData.html = html,
                                       !.assetMapping = assetMapping]
    /\ startTime = 0
    /\ browser = "open" /\ context = "open" /\ page = "open"
    /\ uniqueAssets = <<>> /\ idx = 1 /\ mapping = result.assetMapping
    /\ stats = [total |-> 0, downloaded |-> 0, failed |-> 0]
    /\ netOps = {"launch", "goto"} /\ written = {} /\ attempts = <<>>
    /\ shots = NoShots
    /\ robots = "none"
    /\ wroteBefore = {}
    /\ outcomes = [NoOutcomes EXCEPT !.mkdir = "ok", !.launch = "ok", !.nav = "ok"]
    /\ served = NoServed
    /\ alt = NoAlt
    /\ transfer = NoTransfer
    /\ cli = NoCli /\ proc = NoProc /\ session = NoSession

NextRewrite ==
    \/ saveResults("ok")
    \/ cleanup("ok")

SpecRewrite == InitRewrite /\ [][NextRewrite]_vars

\* ------------------------------------------------------- the fetch in steps
\* scrape on entry to the loop of downloadAndMapAssets, every stage before it
\* having gone through, for any rendered document
LoopEntry ==
    /\ dom \in Documents
    /\ clock = 0
    /\ fs = [EmptyDir EXCEPT !.dirs = TRUE]
    /\ run = 1
    /\ params = RerunParams
    /\ pc = "download"
    /\ result = [InitResult EXCEPT
                   !.scrapedData = [html |-> Markup(dom), assets |-> extractAssets(dom)]]
    /\ startTime = 0
    /\ browser = "open" /\ context = "open" /\ page = "open"
    /\ uniqueAssets = removeDuplicates(flattenAssets(extractAssets(dom)))
    /\ idx = 1
    /\ mapping = EmptyMapping
    /\ stats = [total |-> Len(uniqueAssets), downloaded |-> 0, failed |-> 0]
    /\ netOps = {"launch", "goto"} /\ written = {} /\ attempts = <<>>
    /\ shots = NoShots
    /\ robots = "none"
    /\ wroteBefore = {}
    /\ outcomes = [NoOutcomes EXCEPT !.mkdir = "ok", !.launch = "ok", !.nav = "ok"]

\* the loop body of downloadAndMapAssets once downloadSingleAsset has returned
\* (how is "ok" or "present") or thrown (how is "failed")
Recorded(asset, relativePath, how) ==
    /\ attempts' = Append(attempts, [url |-> asset.url, path |-> relativePath, out |-> how])
    /\ IF how = "failed"
       THEN stats' = [stats EXCEPT !.failed = @ + 1] /\ UNCHANGED mapping
       ELSE /\ mapping' = Register(mapping, MappingKeys(asset), relativePath)
            /\ stats' = [stats EXCEPT !.downloaded = @ + 1]
    /\ idx' = idx + 1
    /\ transfer' = NoTransfer

Pipeline == << dom, run, params, pc, result, startTime, Browser, uniqueAssets,
               shots, robots, wroteBefore, outcomes, served, alt, Tools >>

\* downloadSingleAsset up to its first await of fetch: the file name, the
\* existence check, the AbortController and its timer, the request
fetchStart(dt) ==
    /\ pc = "download"
    /\ idx <= Len(uniqueAssets)
    /\ transfer.phase = "idle"
    /\ clock + dt <= MaxClock
    /\ clock' = clock + dt
    /\ LET asset        == uniqueAssets[idx]
           filename     == generateFilename(asset.url.path, asset.type, clock')
           relativePath == RelativePath(asset.type, filename)
       IN  IF relativePath \in fs.assets
           THEN /\ Recorded(asset, relativePath, "present")
                /\ UNCHANGED netOps
           ELSE /\ transfer' = [phase |-> "headers", timer |-> "armed",
                                server |-> "responding", path |-> relativePath]
                /\ netOps' = netOps \cup {"fetch"}
                /\ UNCHANGED << attempts, mapping, stats, idx >>
    /\ UNCHANGED << fs, written, Pipeline >>

\* the server stops sending, before the response headers or within the body
serverStalls ==
    /\ transfer.phase \in {"headers", "body"}
    /\ transfer.server = "responding"
    /\ transfer' = [transfer EXCEPT !.server = "stalled"]
    /\ UNCHANGED << clock, fs, netOps, written, attempts, mapping, stats, idx, Pipeline >>

SettleOutcomes == {"ok", "http_error", "network_error"}

\* the await of fetch ends: it rejects (network_error), or it resolves with the
\* response headers, and then clearTimeout and the test of response.ok follow
fetchSettles(out) ==
    /\ transfer.phase = "headers"
    /\ transfer.server = "responding"
    /\ IF out = "ok"
       THEN /\ transfer' = [transfer EXCEPT !.phase = "body", !.timer = "cleared"]
            /\ UNCHANGED << attempts, mapping, stats, idx >>
       ELSE Recorded(uniqueAssets[idx], transfer.path, "failed")
    /\ UNCHANGED << clock, fs, netOps, written, Pipeline >>

\* the timer of setTimeout fires: controller.abort() rejects the pending await
timeoutFires ==
    /\ transfer.phase \in {"headers", "body"}
    /\ transfer.timer = "armed"
    /\ Recorded(uniqueAssets[idx], transfer.path, "failed")
    /\ UNCHANGED << clock, fs, netOps, written, Pipeline >>

\* the await of response.arrayBuffer() ends: with the body, which saveAsset
\* writes, or with an error of the connection
bodySettles(out) ==
    /\ transfer.phase = "body"
    /\ transfer.server = "responding"
    /\ IF out = "ok"
       THEN /\ fs' = [fs EXCEPT !.assets = @ \cup {transfer.path}]
            /\ written' = written \cup {"asset"}
            /\ Recorded(uniqueAssets[idx], transfer.path, "ok")
       ELSE /\ Recorded(uniqueAssets[idx], transfer.path, "failed")
            /\ UNCHANGED << fs, written >>
    /\ UNCHANGED << clock, netOps, Pipeline >>

\* the HTTP client of the runtime may end a body read that has gone idle by a
\* limit of its own; downloadSingleAsset arranges none
clientGivesUp ==
    /\ transfer.phase = "body"
    /\ transfer.server = "stalled"
    /\ Recorded(uniqueAssets[idx], transfer.path, "failed")
    /\ UNCHANGED << clock, fs, netOps, written, Pipeline >>

InitFetch ==
    /\ LoopEntry
    /\ served = NoServed
    /\ alt = NoAlt
    /\ transfer = NoTransfer
    /\ cli = NoCli /\ proc = NoProc /\ session = NoSession

NextFetch ==
    \/ \E dt \in 0..1 : fetchStart(dt)
    \/ serverStalls
    \/ \E out \in SettleOutcomes : fetchSettles(out)
    \/ timeoutFires
    \/ \E out \in {"ok", "error"} : bodySettles(out)
    \/ clientGivesUp
    \/ transfer.phase = "idle" /\ processAssetsEnd

SpecFetch == InitFetch /\ [][NextFetch]_vars

\* ------------------------------------------------------- the loop reordered
\* The loop of downloadAndMapAssets run twice over the same unique assets, the
\* same servers and within the same millisecond, each run into an empty assets
\* directory: once as written, one asset after the other in list order, and
\* once by a pool that takes the assets in any order, up to MaxWorkers fetches
\* in flight, the existence check and the write of each being steps of their
\* own.
MaxWorkers == 2    \* fetches the pool has in flight at once

\* the target path downloadSingleAsset computes for asset at the current clock
TargetPath(asset) ==
    RelativePath(asset.type, generateFilename(asset.url.path, asset.type, clock))

InitOrder ==
    /\ LoopEntry
    /\ served \in [ { uniqueAssets[i].url : i \in 1..Len(uniqueAssets) }
                      -> {"ok", "http_error"} ]
    /\ alt = [NoAlt EXCEPT !.stats.total = Len(uniqueAssets)]
    /\ transfer = NoTransfer
    /\ cli = NoCli /\ proc = NoProc /\ session = NoSession

\* one iteration of the loop as written, the server answering as served says
referenceStep == downloadSingleAsset(served[uniqueAssets[idx].url], 0)

PoolFrame == << dom, clock, fs, run, params, pc, result, startTime, Browser, Locals,
                netOps, History, outcomes, served, transfer, Tools >>

\* a worker of the pool takes asset i: downloadSingleAsset up to the fetch
poolCheck(i) ==
    /\ pc = "download"
    /\ idx > Len(uniqueAssets)
    /\ i \in 1..Len(uniqueAssets)
    /\ i \notin alt.fetching \cup alt.done
    /\ Cardinality(alt.fetching) < MaxWorkers
    /\ LET asset        == uniqueAssets[i]
           relativePath == TargetPath(asset)
       IN  IF relativePath \in alt.files
           THEN alt' = [alt EXCEPT
                          !.done = @ \cup {i},
                          !.mapping = Register(@, MappingKeys(asset), relativePath),
                          !.stats.downloaded = @ + 1]
           ELSE alt' = [alt EXCEPT !.fetching = @ \cup {i}]
    /\ UNCHANGED PoolFrame

\* the fetch of asset i ends: the rest of downloadSingleAsset and of the loop
\* body
poolFinish(i) ==
    /\ i \in alt.fetching
    /\ LET asset        == uniqueAssets[i]
           relativePath == TargetPath(asset)
       IN  IF served[asset.url] = "ok"
           THEN alt' = [alt EXCEPT
                          !.fetching = @ \ {i},
                          !.done = @ \cup {i},
                          !.files = @ \cup {relativePath},
                          !.mapping = Register(@, MappingKeys(asset), relativePath),
                          !.stats.downloaded = @ + 1]
           ELSE alt' = [alt EXCEPT
                          !.fetching = @ \ {i},
                          !.done = @ \cup {i},
                          !.stats.failed = @ + 1]
    /\ UNCHANGED PoolFrame

NextOrder ==
    \/ referenceStep
    \/ \E i \in 1..MaxRefs : poolCheck(i)
    \/ \E i \in 1..MaxRefs : poolFinish(i)

SpecOrder == InitOrder /\ [][NextOrder]_vars

\* ------------------------------------------------------------ properties
Range(f) == { f[i] : i \in DOMAIN f }

\* the references extraction returned, over the four category lists
ExtractedRefs ==
    Range(result.scrapedData.assets.images) \cup Range(result.scrapedData.assets.stylesheets)
      \cup Range(result.scrapedData.assets.scripts) \cup Range(result.scrapedData.assets.fonts)

ExtractedUrls == { r.url : r \in ExtractedRefs }

\* the literal text of a reference, as it stands in the markup
LiteralsOf(r) == {r.originalSrc, r.originalHref} \ {Undefined}

AttemptsOf(u) == { i \in 1..Len(attempts) : attempts[i].url = u }
Succeeded(u)  == \E i \in AttemptsOf(u) : attempts[i].out \in {"ok", "present"}
FailedCount   == Cardinality({ i \in 1..Len(attempts) : attempts[i].out = "failed" })
SucceededCount == Len(attempts) - FailedCount

\* downloadAndMapAssets has returned (or was never entered)
DownloaderReturned == pc \notin {"assets", "download"}

SaveFailures == {"writeFile index.html failed", "writeFile metadata.json failed"}

\* C1: once the downloader has returned, every literal text of every extracted
\* reference whose canonical URL was downloaded is a key of the returned
\* assetMapping and maps to the path the canonical URL maps to; so two literals
\* of one canonical URL map to the identical path.
C1_EveryLiteralMapped ==
    DownloaderReturned =>
        \A r \in ExtractedRefs :
            Succeeded(r.url) =>
                \A k \in LiteralsOf(r) \cup {r.url} :
                    /\ k \in DOMAIN result.assetMapping
                    /\ result.assetMapping[k] = result.assetMapping[r.url]

\* C2: two assets with different canonical URLs never get the same target path
\* from generateFilename.
C2_NoFilenameCollision ==
    \A i, j \in 1..Len(attempts) :
        attempts[i].url # attempts[j].url => attempts[i].path # attempts[j].path

\* C3: a later run against the same URL and output directory issues no fetch
\* for a canonical URL whose asset file an earlier run wrote, and its
\* downloadedAssets still counts every asset that succeeded.
C3_RerunIdempotent ==
    /\ \A i \in 1..Len(attempts) :
           attempts[i].url \in wroteBefore => attempts[i].out = "present"
    /\ (pc = "done" /\ run >= 2 /\ result.success) =>
           result.statistics.downloadedAssets = SucceededCount

\* C4: a scrape that processed n unique assets of which k failed, and whose
\* other stages went through, returns totalAssets = n, downloadedAssets = n - k,
\* failedAssets = k and success = true.
C4_StatisticsReported ==
    (pc = "done" /\ params.downloadAssets /\ "metadata.json" \in written) =>
        /\ result.statistics.totalAssets = Cardinality(ExtractedUrls)
        /\ result.statistics.downloadedAssets = Cardinality(ExtractedUrls) - FailedCount
        /\ result.statistics.failedAssets = FailedCount
        /\ result.success

\* C5: an asset failure never aborts the archive. No asset is handed to the
\* downloader twice (so no failed fetch is retried); when the download stage is
\* over every unique asset has been attempted exactly once, whatever failed; an
\* iteration of the download loop leads only to the next iteration or to the
\* stage after it, and the screenshot stage leads only to saving.
C5_AllAttemptedOnce ==
    /\ \A u \in ExtractedUrls : Cardinality(AttemptsOf(u)) <= 1
    /\ (params.downloadAssets /\ pc \in {"screenshots", "save"}) =>
           /\ \A u \in ExtractedUrls : Cardinality(AttemptsOf(u)) = 1
           /\ Len(attempts) = Cardinality(ExtractedUrls)

C5_AssetFailureNeverAborts ==
    /\ []C5_AllAttemptedOnce
    /\ [][ /\ pc = "download" => pc' \in {"download", "screenshots", "save"}
           /\ pc = "screenshots" => pc' = "save" ]_vars

\* C5 witness: the first of two assets failed, the second was still fetched and
\* written, and screenshots, index.html and metadata.json followed.
C5_Witness ==
    /\ pc = "done"
    /\ Len(attempts) = 2
    /\ attempts[1].out = "failed" /\ attempts[2].out = "ok"
    /\ shots.desktop = "ok"
    /\ {"asset", "index.html", "metadata.json"} \subseteq written

\* C6: when the desktop capture fails, the desktop slot is null, the mobile
\* capture is still attempted, and its slot holds a path when it succeeds.
C6_IndependentlyGuarded ==
    shots.desktop = "throw" =>
        /\ result.screenshots.desktop = NullShot
        /\ shots.mobile \in {"ok", "throw"}
        /\ shots.mobile = "ok" => result.screenshots.mobile # NullShot

\* C7: when the desktop capture succeeds, the mobile capture throws and saving
\* does not fail, the returned result has the desktop slot set to the written
\* desktop file, the mobile slot null, and success = true.
C7_MobileFailureKeepsDesktop ==
    (pc = "done" /\ shots.desktop = "ok" /\ shots.mobile = "throw"
       /\ result.message \notin SaveFailures) =>
        /\ result.screenshots.desktop # NullShot
        /\ result.screenshots.desktop.viewport = "desktop"
        /\ result.screenshots.desktop \in fs.shots
        /\ result.screenshots.mobile = NullShot
        /\ result.success

C7_Witness ==
    /\ pc = "done"
    /\ shots.desktop = "ok" /\ shots.mobile = "throw"
    /\ result.success
    /\ result.screenshots.mobile = NullShot

\* C8: a URL whose scheme is neither http nor https fails at validation: no
\* robots load, browser launch, navigation or asset fetch is made, and the
\* returned result has success = false and accessible = false.
C8_NonHttpRejected ==
    (pc # "idle" /\ params.scheme \notin {"http", "https"}) =>
        /\ pc \in {"validate", "cleanup", "done"}
        /\ netOps = {}
        /\ browser = "null"
        /\ pc = "done" => (~result.success /\ ~result.accessible)

C8_Witness ==
    /\ pc = "done"
    /\ params.scheme = "ftp"
    /\ result.message = "Only HTTP and HTTPS URLs are supported"

\* C9: when the loaded robots policy disallows the URL, scrape aborts with
\* scrapingAllowed = false and success = false, the browser is never launched,
\* nothing is navigated or fetched, and no file is written beyond the
\* directories.
C9_RobotsDisallowAborts ==
    robots = "disallowed" =>
        /\ pc \in {"cleanup", "done"}
        /\ ~result.success /\ ~result.scrapingAllowed
        /\ netOps = {"robots"}
        /\ browser = "null" /\ context = "null" /\ page = "null"
        /\ written = {}
        /\ fs = [EmptyDir EXCEPT !.dirs = TRUE]

C9_Witness ==
    /\ pc = "done"
    /\ params.respectRobots
    /\ robots = "disallowed"
    /\ result.message = "Access blocked by robots.txt"

\* C10: whenever the robots policy was not found to disallow the URL - it
\* allowed it, or loading it failed with whatever error - the pipeline goes on
\* to the browser launch.
C10_FailOpen ==
    robots \in {"allowed", "load_error", "load_error_blocked"} =>
        (pc = "launch" \/ "launch" \in netOps)

\* the navigation gave no response, a non-2xx status, or timed out
NavigationFailed == outcomes.nav \in NavOutcomes \ {"ok"}

\* C11: when the navigation gives no response, a non-2xx response or times
\* out, scrape aborts: the result has success = false and accessible = false,
\* no asset is fetched, no screenshot is taken, and neither index.html nor
\* metadata.json is written.
C11_NavigationFailureAborts ==
    NavigationFailed =>
        /\ pc \in {"cleanup", "done"}
        /\ ~result.success /\ ~result.accessible
        /\ "fetch" \notin netOps /\ attempts = <<>>
        /\ shots = NoShots /\ fs.shots = {}
        /\ written = {}
        /\ ~fs.index.exists /\ ~fs.metadata.exists

C11_Witness ==
    /\ pc = "done"
    /\ outcomes.nav = "non2xx"
    /\ params.downloadAssets /\ params.takeScreenshots
    /\ Len(dom) > 0
    /\ result.message = "HTTP 404: Not Found"

\* C12: when scrape has returned, no rendering resource is left open; in
\* particular a launched browser is closed also when closing the page or the
\* context threw (a browser whose own close() threw is left aside).
C12_ResourcesReleased ==
    (pc = "done" /\ outcomes.cleanup # "browser_throw") =>
        /\ browser # "open"
        /\ outcomes.cleanup \notin {"page_throw", "context_throw"} =>
               (context # "open" /\ page # "open")

\* a stage of scrape before cleanup raised: the URL did not parse or is not
\* http(s), the directories could not be made, the robots policy disallowed
\* the URL, the launch threw, the navigation failed, or a file write threw
StageFailed ==
    \/ pc # "idle" /\ params.scheme \notin {"http", "https"}
    \/ outcomes.mkdir = "throw"
    \/ robots = "disallowed"
    \/ outcomes.launch \in LaunchOutcomes \ {"ok"}
    \/ NavigationFailed
    \/ outcomes.save \in SaveOutcomes \ {"ok"}

CleanupFailed == outcomes.cleanup \in CleanupOutcomes \ {"ok"}

C14_EmptyMappingIsIdentity ==
    [][ (pc = "save" /\ result.assetMapping = EmptyMapping /\ fs'.index.exists) =>
            /\ fs'.index.content = result.scrapedData.html
            /\ pc' = "cleanup" => result'.scrapedData.html = result.scrapedData.html
      ]_vars

\* C14 witness: a markup with a single-quoted src attribute and a url() went
\* through replaceAssetUrls with an empty mapping.
C14_Witness ==
    /\ pc = "cleanup"
    /\ fs.index.exists
    /\ result.assetMapping = EmptyMapping
    /\ Len(fs.index.content) = 2
    /\ fs.index.content[1].pos = "src" /\ fs.index.content[1].quote = "sq"
    /\ fs.index.content[2].pos = "url"
    /\ \A i \in 1..2 : ~fs.index.content[i].local

\* the attribute value, or the url() argument, that token tok stands for
ValueOf(tok) == IF tok.pos = "url" THEN tok.text ELSE UnescapeAttr(tok.text)

\* token tok is a quoted src or href attribute, or a url() function
RewritePosition(tok) ==
    \/ tok.pos \in {"src", "href"} /\ tok.quote \in {"dq", "sq"}
    \/ tok.pos = "url"

\* C15: replaceAssetUrls changes the markup only at src attributes, href
\* attributes and url() functions whose value is a key of the mapping; every
\* other token, a data-src attribute or a text occurrence included, is in the
\* output as it was in the input.
C15_AttributeScoped ==
    [][ (pc = "save" /\ fs'.index.exists) =>
            /\ Len(fs'.index.content) = Len(result.scrapedData.html)
            /\ \A i \in 1..Len(result.scrapedData.html) :
                  LET tok == result.scrapedData.html[i]
                  IN  ~(RewritePosition(tok) /\ ValueOf(tok) \in DOMAIN result.assetMapping)
                          => fs'.index.content[i] = tok
      ]_vars

\* C16: after replaceAssetUrls, every quoted src attribute, quoted href
\* attribute and url() function of the input whose value is a key of the
\* mapping carries that key's local path, whatever the order in which the
\* entries are taken.
C16_RewritingComplete ==
    [][ (pc = "save" /\ fs'.index.exists) =>
            /\ \A i \in 1..Len(result.scrapedData.html) :
                  LET tok == result.scrapedData.html[i]
                  IN  (RewritePosition(tok) /\ ValueOf(tok) \in DOMAIN result.assetMapping)
                          => /\ fs'.index.content[i].local
                             /\ fs'.index.content[i].path =
                                    result.assetMapping[ValueOf(tok)]
            /\ \A keys \in SeqsUpTo(DOMAIN result.assetMapping,
                                    Cardinality(DOMAIN result.assetMapping)) :
                  Range(keys) = DOMAIN result.assetMapping =>
                      ReplaceAll(result.scrapedData.html, result.assetMapping, keys)
                          = fs'.index.content
      ]_vars

\* C18: every asset fetch is bounded by its own timeout: wherever in the
\* transfer the server stops responding, before the headers or within the
\* body, the timer that aborts the fetch is armed.
C18_FetchBoundedByTimeout ==
    transfer.server = "stalled" => transfer.timer = "armed"

\* C17: when the loop as written and the pool have both gone through the unique
\* assets, they have built the same assetMapping, every key with the same
\* path, and the same total / downloaded / failed statistics.
C17_OrderIrrelevant ==
    (idx > Len(uniqueAssets) /\ alt.done = 1..Len(uniqueAssets)) =>
        /\ alt.mapping = mapping
        /\ alt.stats = stats

\* the position of a stage in scrape
Rank(stage) ==
    CASE stage = "idle"        -> 0
      [] stage = "validate"    -> 1
      [] stage = "mkdir"       -> 2
      [] stage = "robots"      -> 3
      [] stage = "launch"      -> 4
      [] stage = "navigate"    -> 5
      [] stage = "assets"      -> 6
      [] stage = "download"    -> 7
      [] stage = "screenshots" -> 8
      [] stage = "save"        -> 9
      [] stage = "cleanup"     -> 10
      [] OTHER                 -> 11

Extracted == result.scrapedData.html # NullHtml

\* C19: the stages of one scrape follow one another and never go back.  The
\* markup and the references are there only after the navigation went through;
\* an asset is fetched, or a viewport captured, only after extraction; the
\* mobile capture is attempted only after the desktop capture is over;
\* index.html holds the captured markup rewritten with the mapping of the
\* finished download loop, every unique asset having been attempted; and
\* metadata.json is written only after index.html, with that same mapping.
C19_Ordered ==
    /\ Extracted => outcomes.nav = "ok"
    /\ ("fetch" \in netOps \/ attempts # <<>> \/ shots # NoShots) => Extracted
    /\ shots.mobile # "none" => shots.desktop = "ok"
    /\ fs.index.exists =>
          /\ Extracted /\ DownloaderReturned
          /\ params.downloadAssets =>
                /\ Len(attempts) = Cardinality(ExtractedUrls)
                /\ result.assetMapping = mapping
          /\ fs.index.content = replaceAssetUrls(Markup(dom), mapping)
    /\ fs.metadata.exists =>
          /\ fs.index.exists
          /\ fs.metadata.assetMapping = mapping

C19_StagesOrdered ==
    /\ []C19_Ordered
    /\ [][Rank(pc') >= Rank(pc)]_vars

\* C19 witness: a scrape that fetched two assets, captured both viewports and
\* wrote an index.html with a rewritten reference has returned.
C19_Witness ==
    /\ pc = "done"
    /\ result.success
    /\ Len(attempts) = 2 /\ attempts[1].out = "ok"
    /\ shots = [desktop |-> "ok", mobile |-> "ok"]
    /\ \E i \in 1..Len(fs.index.content) : fs.index.content[i].local
    /\ fs.metadata.exists

\* C20: when a file already exists at the target path computed for the asset at
\* hand, the iteration issues no fetch and writes no file, counts the asset as
\* downloaded and not as failed, and registers its canonical URL and its
\* literal text with that path.
C20_SkipIfPresent ==
    [][ LET asset  == uniqueAssets[idx]
            target == RelativePath(asset.type,
                        generateFilename(asset.url.path, asset.type, clock'))
        IN  (pc = "download" /\ idx <= Len(uniqueAssets) /\ idx' = idx + 1
               /\ target \in fs.assets) =>
                /\ attempts' = Append(attempts,
                      [url |-> asset.url, path |-> target, out |-> "present"])
                /\ netOps' = netOps /\ fs' = fs /\ written' = written
                /\ stats' = [stats EXCEPT !.downloaded = @ + 1]
                /\ \A k \in {asset.url, asset.originalSrc, asset.originalHref}
                              \ {Undefined} :
                       k \in DOMAIN mapping' /\ mapping'[k] = target
      ]_vars

\* C20 witness: the second of two assets found a file at its target path: no
\* fetch was made for it, both count as downloaded, and its keys are mapped.
C20_Witness ==
    /\ Len(attempts) = 2
    /\ attempts[1].out = "ok" /\ attempts[2].out = "present"
    /\ attempts[2].path \in fs.assets
    /\ stats.downloaded = 2 /\ stats.failed = 0
    /\ attempts[2].url \in DOMAIN mapping
    /\ mapping[attempts[2].url] = attempts[2].path

\* the download loop of this scrape has been entered
LoopEntered == params.downloadAssets /\ Extracted /\ pc # "assets"

\* C21: whatever the four extracted lists hold, stats.total is the number of
\* distinct canonical URLs over all of them, the loop runs over one record per
\* distinct canonical URL, and no canonical URL is handed to the downloader, or
\* fetched, more than once in a run.
C21_Deduplicated ==
    LoopEntered =>
        LET urls == ExtractedUrls
        IN  /\ stats.total = Cardinality(urls)
            /\ Len(uniqueAssets) = stats.total
            /\ { uniqueAssets[i].url : i \in 1..Len(uniqueAssets) } = urls
            /\ \A i, j \in 1..Len(attempts) :
                  attempts[i].url = attempts[j].url => i = j
            /\ \A i \in 1..Len(attempts) : attempts[i].url \in urls

\* C21 witness: two references with different literal texts and one canonical
\* URL were extracted, and the run made one fetch and counted one asset.
C21_Witness ==
    /\ pc = "done"
    /\ Cardinality(ExtractedRefs) = 2
    /\ Cardinality(ExtractedUrls) = 1
    /\ stats.total = 1
    /\ Len(attempts) = 1 /\ attempts[1].out = "ok"

\* C22: in the download loop and after it, downloaded + failed is the number
\* of unique assets processed so far, downloaded counting exactly the assets
\* that succeeded and failed exactly those that failed; once
\* downloadAndMapAssets has returned, total = downloaded + failed.
C22_StatisticsAccounting ==
    LoopEntered =>
        /\ stats.downloaded + stats.failed = Len(attempts)
        /\ stats.failed = FailedCount
        /\ stats.downloaded = SucceededCount
        /\ pc = "download" => Len(attempts) = idx - 1
        /\ pc # "download" => stats.total = stats.downloaded + stats.failed

\* C22 witness: of two unique assets the first was written and the second
\* failed, and the downloader returned total 2, downloaded 1, failed 1.
C22_Witness ==
    /\ pc = "save"
    /\ Len(attempts) = 2
    /\ attempts[1].out = "ok" /\ attempts[2].out = "failed"
    /\ stats = [total |-> 2, downloaded |-> 1, failed |-> 1]

\* the canonical URL and the literal texts of the references to the assets
\* whose download failed
FailedKeys ==
    LET failedUrls == { attempts[i].url :
                          i \in { j \in 1..Len(attempts) : attempts[j].out = "failed" } }
    IN  IF failedUrls = {} THEN {}
        ELSE UNION { LiteralsOf(r) \cup {r.url} :
                       r \in { x \in ExtractedRefs : x.url \in failedUrls } }

\* C23: no key of the mapping, in the loop or in the result, is the canonical
\* URL or a literal text of an asset counted as failed, and in the index.html
\* written every reference to such an asset still carries its original text.
C23_MappingOnlyForSuccesses ==
    LET failed == FailedKeys
    IN  \/ failed = {}
        \/ /\ failed \cap DOMAIN mapping = {}
           /\ failed \cap DOMAIN result.assetMapping = {}
           /\ fs.index.exists =>
                 \A i \in 1..Len(fs.index.content) :
                     ValueOf(fs.index.content[i]) \in failed => ~fs.index.content[i].local

\* C23 witness: the first of two assets failed and the second was written; the
\* index.html written keeps the first reference and has the second rewritten.
C23_Witness ==
    /\ pc = "done" /\ result.success
    /\ Len(attempts) = 2
    /\ attempts[1].out = "failed" /\ attempts[2].out = "ok"
    /\ Len(fs.index.content) = 2
    /\ ~fs.index.content[1].local /\ fs.index.content[2].local
    /\ attempts[2].url \in DOMAIN result.assetMapping

UrlsOf(list) == { list[i].url : i \in 1..Len(list) }

\* whether list holds a reference with canonical URL u
Holds(list, u) == \E i \in 1..Len(list) : list[i].url = u

\* the first category, in the order images, stylesheets, scripts, fonts, whose
\* extracted list holds canonical URL u
FirstCategory(u) ==
    CASE Holds(result.scrapedData.assets.images, u)      -> "images"
      [] Holds(result.scrapedData.assets.stylesheets, u) -> "stylesheets"
      [] Holds(result.scrapedData.assets.scripts, u)     -> "scripts"
      [] OTHER                                           -> "fonts"

\* C24: a canonical URL, in however many category lists it stands, is handed to
\* the downloader once, with a target path in the directory of the first
\* category that holds it, and every mapping entry of its references points
\* into that directory.
C24_FirstCategoryWins ==
    LoopEntered =>
        /\ \A i \in 1..Len(attempts) :
              /\ attempts[i].path.type = FirstCategory(attempts[i].url)
              /\ \A j \in 1..Len(attempts) :
                    attempts[j].url = attempts[i].url => j = i
        /\ mapping = EmptyMapping
              \/ LET refs == result.scrapedData.assets.images
                               \o result.scrapedData.assets.stylesheets
                               \o result.scrapedData.assets.scripts
                               \o result.scrapedData.assets.fonts
                 IN  \A n \in 1..Len(refs) :
                        LET category == FirstCategory(refs[n].url)
                        IN  \A k \in {refs[n].url, refs[n].originalSrc, refs[n].originalHref} :
                                k \in DOMAIN mapping => mapping[k].type = category
        /\ \A p \in fs.assets : \E i \in 1..Len(attempts) :
              attempts[i].path = p /\ p.type = FirstCategory(attempts[i].url)

\* C24 witness: a stylesheet link whose href contains "font" was extracted as a
\* stylesheet and as a font, fetched once and stored under stylesheets.
C24_Witness ==
    /\ pc = "done"
    /\ Len(result.scrapedData.assets.stylesheets) = 1
    /\ Len(result.scrapedData.assets.fonts) = 1
    /\ Len(attempts) = 1 /\ attempts[1].out = "ok"
    /\ attempts[1].path.type = "stylesheets"
    /\ fs.assets = {attempts[1].path}

\* C25: the flags success, accessible and scrapingAllowed of the result have
\* one value at all times; in a returned result they are true exactly when
\* every stage through saveResults went through, and false after any abort,
\* also one after a navigation that succeeded.
C25_FlagsAgree ==
    /\ result.success = result.accessible
    /\ result.accessible = result.scrapingAllowed
    /\ pc = "done" =>
          /\ result.success <=> "metadata.json" \in written
          /\ StageFailed => ~result.success

\* C25 witness: the navigation and the download went through, writing
\* metadata.json threw, and the returned result has the three flags false.
C25_Witness ==
    /\ pc = "done"
    /\ outcomes.nav = "ok" /\ outcomes.save = "metadata_throw"
    /\ Len(attempts) = 1 /\ attempts[1].out = "ok"
    /\ ~result.success /\ ~result.accessible /\ ~result.scrapingAllowed

\* C26: with downloadAssets false no asset is fetched or written, the mapping
\* stays empty, the asset statistics stay 0 and the index.html written and the
\* markup returned are the captured markup; with takeScreenshots false no
\* viewport is set or captured and both screenshot slots stay null.
C26_DisabledStagesLeaveNoTrace ==
    /\ (pc # "idle" /\ ~params.downloadAssets) =>
          /\ "fetch" \notin netOps /\ attempts = <<>>
          /\ fs.assets = {} /\ "asset" \notin written
          /\ result.assetMapping = EmptyMapping
          /\ result.statistics.totalAssets = 0
          /\ result.statistics.downloadedAssets = 0
          /\ result.statistics.failedAssets = 0
          /\ fs.index.exists => fs.index.content = Markup(dom)
          /\ Extracted => result.scrapedData.html = Markup(dom)
    /\ (pc # "idle" /\ ~params.takeScreenshots) =>
          /\ shots = NoShots
          /\ fs.shots = {} /\ "screenshot" \notin written
          /\ result.screenshots = [desktop |-> NullShot, mobile |-> NullShot]

\* C26 witness: a page with two references was archived with both stages
\* disabled.
C26_Witness ==
    /\ pc = "done" /\ result.success
    /\ ~params.downloadAssets /\ ~params.takeScreenshots
    /\ Cardinality(ExtractedUrls) = 2
    /\ fs.index.exists /\ fs.index.content = Markup(dom)

\* ------------------------------------------------------------ extraction
\* scrape on entry to scrapePage, every stage before it having gone through,
\* for any rendered document
InitExtract ==
    /\ dom \in SeqsUpTo(RenderedElements, MaxRefs)
    /\ clock = 0
    /\ fs = [EmptyDir EXCEPT !.dirs = TRUE]
    /\ run = 1
    /\ params \in { p \in Params : p.scheme = "http" /\ ~p.respectRobots }
    /\ pc = "navigate"
    /\ result = InitResult
    /\ startTime = 0
    /\ browser = "open" /\ context = "open" /\ page = "open"
    /\ uniqueAssets = <<>> /\ idx = 1 /\ mapping = EmptyMapping
    /\ stats = [total |-> 0, downloaded |-> 0, failed |-> 0]
    /\ netOps = {"launch"} /\ written = {} /\ attempts = <<>>
    /\ shots = NoShots
    /\ robots = "none"
    /\ wroteBefore = {}
    /\ outcomes = [NoOutcomes EXCEPT !.mkdir = "ok", !.launch = "ok"]
    /\ served = NoServed
    /\ alt = NoAlt
    /\ transfer = NoTransfer
    /\ cli = NoCli /\ proc = NoProc /\ session = NoSession

NextExtract == \E out \in NavOutcomes : scrapePage(out)

SpecExtract == InitExtract /\ [][NextExtract]_vars

\* the elements of the document that the query named sel selects and whose
\* text resolves, in document order
Expected(sel) == SelectSeq(dom, LAMBDA e : Selects(sel, e) /\ Resolves(e.text))

OriginalOf(r) == IF r.originalSrc # Undefined THEN r.originalSrc ELSE r.originalHref

\* list holds, in order, one reference per element of els: the element's text
\* as written and the URL it resolves to
ListsExactly(list, els) ==
    /\ Len(list) = Len(els)
    /\ \A i \in 1..Len(list) :
          /\ list[i].url = ResolveUrl(els[i].text, PageUrl)
          /\ OriginalOf(list[i]) = els[i].text

\* C28: after extraction every category list holds, in document order (image
\* elements before background images), one reference per selected element
\* whose text resolves, whatever unresolvable texts stand between them; no
\* image reference has a data: or blob: text; each reference carries the
\* element's text as written next to the URL that text resolves to.
C28_ExtractionTolerant ==
    Extracted =>
        /\ ListsExactly(result.scrapedData.assets.images,
                        Expected("img") \o Expected("background"))
        /\ ListsExactly(result.scrapedData.assets.stylesheets, Expected("stylesheet"))
        /\ ListsExactly(result.scrapedData.assets.scripts, Expected("script"))
        /\ ListsExactly(result.scrapedData.assets.fonts, Expected("font"))
        /\ \A i \in 1..Len(result.scrapedData.assets.images) :
              OriginalOf(result.scrapedData.assets.images[i]).form \notin {"data", "blob"}

\* ------------------------------------------------- web_scraper of cli.js
\* execute of cli.js called with the parameters of the scrape that has just
\* returned, in the same environment: every operation that scrape made does
\* for cli.js what it did for scrape, an operation that scrape did not get to
\* does anything it can do.
Heard(recorded, all) ==
    IF recorded # "none" THEN {recorded}
    ELSE IF /\ params.scheme \in {"http", "https"}
            /\ outcomes.mkdir = "ok"
            /\ ~(params.respectRobots /\ robots = "disallowed")
         THEN all
         ELSE {"none"}

DocumentUrls ==
    LET assets == extractAssets(dom)
    IN  UrlsOf(assets.images) \cup UrlsOf(assets.stylesheets)
          \cup UrlsOf(assets.scripts) \cup UrlsOf(assets.fonts)

\* the outcome of the loop body of downloadAndMapAssets (cli.js) for url:
\* mapped and counted as downloaded, or counted as failed
AssetSucceeds(url, okUrls) ==
    IF AttemptsOf(url) # {} THEN Succeeded(url) ELSE url \in okUrls

RECURSIVE cliDownloadLoop(_, _, _, _)
cliDownloadLoop(list, i, okUrls, acc) ==
    IF i > Len(list) THEN acc
    ELSE cliDownloadLoop(list, i + 1, okUrls,
            IF AssetSucceeds(list[i].url, okUrls)
            THEN [acc EXCEPT !.mapping = @ \cup MappingKeys(list[i]),
                             !.stats.downloaded = @ + 1]
            ELSE [acc EXCEPT !.stats.failed = @ + 1])

\* downloadAndMapAssets of cli.js: the keys of its mapping and its stats
downloadAndMapAssets(assets, okUrls) ==
    LET list == removeDuplicates(flattenAssets(assets))
    IN  cliDownloadLoop(list, 1, okUrls,
            [mapping |-> {}, stats |-> [total |-> Len(list), downloaded |-> 0, failed |-> 0]])

\* takePageScreenshots of cli.js
takePageScreenshots(desktop, mobile) ==
    [ desktop |-> IF desktop = "ok" THEN "path" ELSE "null",
      mobile  |-> IF desktop = "ok" /\ mobile = "ok" THEN "path" ELSE "null" ]

\* createWebScraperTool.execute of cli.js, from call to return
cliExecute(launch, nav, desktop, mobile, okUrls, save) ==
    /\ pc = "done"
    /\ cli.phase = "idle"
    /\ cli' =
         [ phase  |-> "returned",
           result |->
             IF params.scheme \notin {"http", "https"} THEN CliErrorResult
             ELSE IF outcomes.mkdir # "ok" THEN CliErrorResult
             ELSE IF params.respectRobots /\ robots = "disallowed" THEN CliInitialResult
             ELSE IF launch # "ok" \/ nav # "ok" THEN CliErrorResult
             ELSE LET assets      == extractAssets(dom)
                      screenshots == IF params.takeScreenshots
                                     THEN takePageScreenshots(desktop, mobile)
                                     ELSE [desktop |-> "null", mobile |-> "null"]
                      downloaded  == IF params.downloadAssets
                                     THEN downloadAndMapAssets(assets, okUrls)
                                     ELSE [mapping |-> {}, stats |-> NoDownloadStats]
                  IN  IF save # "ok" THEN CliErrorResult
                      ELSE CliResult(TRUE, downloaded.stats, downloaded.mapping,
                                     screenshots) ]
    /\ UNCHANGED << dom, clock, fs, run, params, pc, result, startTime, Browser, Locals,
                    netOps, History, outcomes, served, alt, transfer, proc, session >>

NextEquiv ==
    \/ Next
    \/ \E launch \in Heard(outcomes.launch, LaunchOutcomes),
          nav \in Heard(outcomes.nav, NavOutcomes),
          desktop \in Heard(shots.desktop, CaptureOutcomes),
          mobile \in Heard(shots.mobile, CaptureOutcomes),
          okUrls \in (IF attempts = <<>> /\ outcomes.launch = "none"
                      THEN SUBSET DocumentUrls ELSE {{}}),
          save \in Heard(outcomes.save, SaveOutcomes) :
            cliExecute(launch, nav, desktop, mobile, okUrls, save)

SpecEquiv == Init /\ [][NextEquiv]_vars

\* C27: once both implementations have returned for the same input in the
\* same environment, their results have the same three flags, the same asset
\* statistics, the same set of assetMapping keys, and a screenshot slot of one
\* is null exactly when that slot of the other is.
C27_SameResultContract ==
    cli.phase = "returned" =>
        /\ cli.result.success = result.success
        /\ cli.result.accessible = result.accessible
        /\ cli.result.scrapingAllowed = result.scrapingAllowed
        /\ cli.result.statistics.totalAssets = result.statistics.totalAssets
        /\ cli.result.statistics.downloadedAssets = result.statistics.downloadedAssets
        /\ cli.result.statistics.failedAssets = result.statistics.failedAssets
        /\ cli.result.assetMapping = DOMAIN result.assetMapping
        /\ (cli.result.screenshots.desktop = "path") <=> (result.screenshots.desktop # NullShot)
        /\ (cli.result.screenshots.mobile = "path") <=> (result.screenshots.mobile # NullShot)

\* ------------------------------------------------------- execute_command
\* One call of createAdvancedTerminalTool.execute, of tools/executeCommand.js
\* (impl "current") or of tools/executeCommand-back.js (impl "back").  Time is
\* counted in units of half the schema's default timeout.
DefaultTimeout == 2

TimeoutArgs == {Undef, Null, 1, DefaultTimeout}

\* z.number().nullable().default(...): the default stands in for undefined,
\* null passes
ParseTimeout(timeoutArg) == IF timeoutArg = Undef THEN DefaultTimeout ELSE timeoutArg

\* setTimeout(callback, delay): a delay that is not a number of at least 1 is
\* taken as 1 ms, which is no unit of time at all
TimerDelay(timeout) == IF timeout = Null THEN 0 ELSE timeout

\* resolve(r) called by the event named by: the first call settles the promise
Resolve(p, r, by) ==
    IF p.phase = "pending"
    THEN [p EXCEPT !.phase = "settled", !.result = r, !.settledBy = by]
    ELSE p

\* execute up to the return of the promise executor
execute(impl, timeoutArg, argsNull, dirExists, spawnThrows) ==
    /\ proc.phase = "idle"
    /\ impl = "current" => ~argsNull
    /\ LET timeout == ParseTimeout(timeoutArg)
           called  == [proc EXCEPT !.phase = "pending", !.impl = impl,
                                   !.timeout = timeoutArg]
       IN  proc' =
             IF impl = "back" /\ argsNull
             THEN \* args.join throws in the try block and again in the catch block
                  [called EXCEPT !.phase = "rejected", !.settledBy = "throw"]
             ELSE IF impl = "back" /\ ~dirExists
             THEN Resolve(called, [success |-> FALSE, exitCode |-> Undef], "check")
             ELSE IF spawnThrows
             THEN Resolve(called, [success |-> FALSE, exitCode |-> 1], "catch")
             ELSE [called EXCEPT !.child = IF dirExists THEN "running" ELSE "failing",
                                 !.timer = "armed",
                                 !.delay = TimerDelay(timeout)]
    /\ UNCHANGED << dom, clock, fs, run, params, pc, result, startTime, Browser, Locals,
                    netOps, History, outcomes, served, alt, transfer, cli, session >>

\* time passes
tick ==
    /\ proc.phase \in {"pending", "settled"}
    /\ proc.child # "closed" \/ proc.timer = "armed"
    /\ proc.elapsed < MaxElapsed
    /\ proc' = [proc EXCEPT !.elapsed = @ + 1]
    /\ UNCHANGED << dom, clock, fs, run, params, pc, result, startTime, Browser, Locals,
                    netOps, History, outcomes, served, alt, transfer, cli, session >>

\* the child's 'error' event: the spawn failed
childError ==
    /\ proc.child = "failing"
    /\ proc' = [Resolve(proc, [success |-> FALSE, exitCode |-> 1], "error")
                  EXCEPT !.child = "errored"]
    /\ UNCHANGED << dom, clock, fs, run, params, pc, result, startTime, Browser, Locals,
                    netOps, History, outcomes, served, alt, transfer, cli, session >>

\* the exit codes a child in state child can close with (Null: ended by a signal)
CloseCodes(child) ==
    CASE child = "running" -> {0, 1}
      [] child = "killed"  -> {0, Null}
      [] OTHER             -> {-2}

\* the child's 'close' event: both listeners, in the order they were added
childClose(code) ==
    /\ proc.child \in {"running", "killed", "errored"}
    /\ code \in CloseCodes(proc.child)
    /\ proc' = [Resolve(proc, [success |-> code = 0, exitCode |-> code], "close")
                  EXCEPT !.child = "closed",
                         !.timer = IF @ = "armed" THEN "cleared" ELSE @]
    /\ UNCHANGED << dom, clock, fs, run, params, pc, result, startTime, Browser, Locals,
                    netOps, History, outcomes, served, alt, transfer, cli, session >>

\* the callback of setTimeout
timeoutCallback ==
    /\ proc.timer = "armed"
    /\ proc.elapsed >= proc.delay
    /\ proc' = [Resolve(proc, [success |-> FALSE, exitCode |-> 124], "timeout")
                  EXCEPT !.timer = "fired",
                         !.signal = "SIGTERM",
                         !.child = IF @ = "running" THEN "killed" ELSE @]
    /\ UNCHANGED << dom, clock, fs, run, params, pc, result, startTime, Browser, Locals,
                    netOps, History, outcomes, served, alt, transfer, cli, session >>

InitExec == Init /\ dom = <<>>

NextExec ==
    \/ \E impl \in {"current", "back"}, timeoutArg \in TimeoutArgs,
          argsNull \in BOOLEAN, dirExists \in BOOLEAN, spawnThrows \in BOOLEAN :
            execute(impl, timeoutArg, argsNull, dirExists, spawnThrows)
    \/ tick
    \/ childError
    \/ \E code \in {0, 1, Null, -2} : childClose(code)
    \/ timeoutCallback

SpecExec == InitExec /\ [][NextExec]_vars

\* the number of units the caller configured: the timeout passed, the
\* schema's default where none was passed
Configured(timeoutArg) ==
    IF timeoutArg \in {Undef, Null} THEN DefaultTimeout ELSE timeoutArg

\* C29: a call of execute_command never rejects and its result is that of the
\* first of close, error and timeout; a timeout that comes first signals the
\* child with SIGTERM and gives success = false, exitCode 124, whatever the
\* child closes with later; the timer fires only once the configured time has
\* passed, the default when timeout is null; and no timer stays armed once
\* the child has closed.
C29_SettlesOnceInTime ==
    /\ proc.phase # "rejected"
    /\ proc.settledBy = "timeout" =>
          /\ proc.result = [success |-> FALSE, exitCode |-> 124]
          /\ proc.signal = "SIGTERM"
    /\ proc.settledBy = "close" => proc.result.success = (proc.result.exitCode = 0)
    /\ proc.settledBy = "error" => proc.result = [success |-> FALSE, exitCode |-> 1]
    /\ proc.timer = "fired" => proc.elapsed >= Configured(proc.timeout)
    /\ proc.child = "closed" => proc.timer # "armed"

\* ------------------------------------------------------- session terminal
\* The tool made by createSessionTerminalTool.  A directory is the path of
\* names that leads to it from process.cwd(); session.disk is the set of
\* directories that exist.
Names == {"a", "b"}

Paths == SeqsUpTo(Names, MaxDepth)

\* the values of changeDirectory: null, a path relative to the session
\* directory, or an absolute path
ChangeArgs ==
    { [kind |-> "null", path |-> <<>>] }
      \cup { [kind |-> k, path |-> p] : k \in {"rel", "abs"}, p \in Paths \ {<<>>} }

\* path.resolve(sessionDirectory, changeDirectory)
PathResolve(sessionDirectory, changeDirectory) ==
    IF changeDirectory.kind = "abs" THEN changeDirectory.path
    ELSE sessionDirectory \o changeDirectory.path

\* someone creates directory p, whose parent exists
mkdir(p) ==
    /\ p \in Paths \ session.disk
    /\ SubSeq(p, 1, Len(p) - 1) \in session.disk
    /\ session' = [session EXCEPT !.disk = @ \cup {p}]
    /\ UNCHANGED << dom, clock, fs, run, params, pc, result, startTime, Browser, Locals,
                    netOps, History, outcomes, served, alt, transfer, cli, proc >>

\* createSessionTerminalTool's execute, from call to return; command is what
\* execAsync does with the command
sessionExecute(command, changeDirectory, resetSession) ==
    LET reset  == IF resetSession THEN Cwd ELSE session.sessionDirectory
        newDir == PathResolve(reset, changeDirectory)
    IN  /\ session' =
              IF changeDirectory.kind # "null" /\ newDir \notin session.disk
              THEN [session EXCEPT !.sessionDirectory = reset,
                                   !.before = session.sessionDirectory,
                                   !.last = "missing",
                                   !.executed = FALSE,
                                   !.success = FALSE]
              ELSE [session EXCEPT !.sessionDirectory =
                                       IF changeDirectory.kind # "null" THEN newDir
                                       ELSE reset,
                                   !.before = session.sessionDirectory,
                                   !.last = "ran",
                                   !.executed = TRUE,
                                   !.success = (command = "ok")]
        /\ UNCHANGED << dom, clock, fs, run, params, pc, result, startTime, Browser,
                        Locals, netOps, History, outcomes, served, alt, transfer, cli,
                        proc >>

InitSession == Init /\ dom = <<>>

NextSession ==
    \/ \E p \in Paths : mkdir(p)
    \/ \E command \in {"ok", "fails"}, changeDirectory \in ChangeArgs,
          resetSession \in BOOLEAN :
            sessionExecute(command, changeDirectory, resetSession)

SpecSession == InitSession /\ [][NextSession]_vars

\* C30: a call whose changeDirectory names a directory that does not exist
\* returns success = false, has not executed the command and has left the
\* session directory what it was before the call, whatever resetSession is;
\* and the session directory is process.cwd() or a directory that exists.
C30_FailedChangeKeepsSession ==
    /\ session.last = "missing" =>
          /\ ~session.success
          /\ ~session.executed
          /\ session.sessionDirectory = session.before
    /\ session.sessionDirectory = Cwd \/ session.sessionDirectory \in session.disk

====
